---- MODULE Spec2Model ----
(***************************************************************************)
(* Model of the DollarBill ML bridge: the profitability classifier         *)
(* (src/ml/signal_classifier.py) and the volatility forecaster             *)
(* (src/ml/volatility_predictor.py).                                       *)
(*                                                                         *)
(* The state machines of the module:                                       *)
(*   Spec        one-shot processes run one after another over the same    *)
(*               artifact files: constructor (load), train, predict, the   *)
(*               two CLI mains, a library caller, external termination.    *)
(*               The two services share no file (models/signal_classifier  *)
(*               .pkl and models/volatility_predictor.h5, each with its    *)
(*               own scaler file), so a behaviour follows one of them.     *)
(*   SpecWindow  the sequence windower prepare_data applied to bounded     *)
(*               surfaces and window lengths.                              *)
(*   SpecRace    Spec with a second process that constructs a service on   *)
(*               the same artifact files while the first one trains.       *)
(*   SpecFeatures  the feature construction of SignalClassifier.predict    *)
(*               applied to bounded input records.                         *)
(*   SpecPaths   the derivation of the scaler file's path from model_path, *)
(*               applied to bounded paths.                                 *)
(*                                                                         *)
(* Numbers: probabilities are in units of 1/10000, implied vols and        *)
(* volumes are integers, means are exact fractions [num, den].             *)
(***************************************************************************)
EXTENDS Integers, Sequences, FiniteSets, TLC

VARIABLES
    \* ---- persistent storage
    files,        \* [model : File, scaler : File]: the artifact files of the service
    synthCsv,     \* data/synthetic_vol_data.csv has been written
    \* ---- the running process
    pc,           \* position in the program
    kind,         \* "clf" | "vol": the service (script) the behaviour is about
    mode,         \* "train" | "predict" | "inline" | "usage" | "api"
    model,        \* self.model
    scaler,       \* self.scaler
    is_trained,   \* self.is_trained
    ret,          \* where train() returns to
    input,        \* the scoring input of the run (record, see Start)
    trainData,    \* number of windows / validity of the training data
    result,       \* the value returned by the last predict()
    raised,       \* the exception the last call raised ("none" if it returned)
    stdout,       \* lines printed so far
    exitStatus,   \* -1 while running, else the process exit status
    \* ---- history of the run (read by the properties only)
    runs,         \* processes started so far
    gen,          \* the id of the training run this process entered last (0: none)
    calls,        \* API calls made by the library caller in this run
    startFiles,   \* files when the process started
    hist,         \* record of what happened in this run (see FreshHist)
    saved,        \* the pair in memory when train() last persisted it (see NoSaved)
    \* ---- windower harness
    wSurface,     \* the surface table given to prepare_data
    wL,           \* sequence_length
    wOut,         \* what prepare_data returned ("status" = "notcalled" before)
    \* ---- feature construction harness
    fIn,          \* signal_features: a dict, as the sequence of its (key, value) items
    fOut,         \* what the feature construction gave ("status" = "notcalled" before)
    \* ---- artifact path harness
    pPath,        \* model_path given to the constructor, a sequence of characters
    pOut,         \* the two paths the service uses ("status" = "notcalled" before)
    \* ---- a second process that constructs a service (SpecRace)
    lPc,          \* its position: "idle", "load_model", "load_scaler", "done"
    lModel,       \* its self.model
    lScaler,      \* its self.scaler
    lTrained      \* its self.is_trained

vars == <<files, synthCsv, pc, kind, mode, model, scaler, is_trained, ret, input,
          trainData, result, raised, stdout, exitStatus, runs, gen, calls,
          startFiles, hist, saved, wSurface, wL, wOut, fIn, fOut, pPath, pOut,
          lPc, lModel, lScaler, lTrained>>

\* the variables of the second process
loaderVars == <<lPc, lModel, lScaler, lTrained>>

\* the variables of the harnesses and of the second process
winVars == <<wSurface, wL, wOut, fIn, fOut, pPath, pOut, lPc, lModel, lScaler, lTrained>>

----------------------------------------------------------------------------
(* Bounds *)

MaxRuns == 2        \* processes started in one behaviour
MaxCalls == 2       \* train()/predict() calls of a library caller per process
MaxRows == 4        \* rows (and distinct dates) of a windower input surface
MaxL == 2           \* largest sequence_length given to the windower harness
MaxText == 1        \* longest string value of an input record
MaxPath == 5        \* longest model_path, in characters

(* Program constants *)

SEQUENCE_LENGTH == 10      \* prepare_data(csv_path, sequence_length=10)
TRADE_THRESHOLD == 7000    \* prob_profitable > 0.7, in 1/10000
SYNTH_DAYS == 100          \* generate_synthetic_data(num_days=100)

----------------------------------------------------------------------------
(* Small helpers *)

Max(a, b) == IF a >= b THEN a ELSE b

RECURSIVE SumSeq(_)
SumSeq(s) == IF s = <<>> THEN 0 ELSE Head(s) + SumSeq(Tail(s))

RECURSIVE Flatten(_)
Flatten(ss) == IF ss = <<>> THEN <<>> ELSE Head(ss) \o Flatten(Tail(ss))

\* sorted(set): the ascending sequence of the elements of a finite set of integers
RECURSIVE SortedSeq(_)
SortedSeq(S) ==
    IF S = {} THEN <<>>
    ELSE LET m == CHOOSE x \in S : \A y \in S : x <= y
         IN <<m>> \o SortedSeq(S \ {m})

\* an exact fraction
Frac(n, d) == [num |-> n, den |-> d]

----------------------------------------------------------------------------
(* The sequence windower: VolatilityPredictor.prepare_data                  *)
(* A surface is a sequence of rows [date, implied_vol, volume]; the strike *)
(* column only orders the rows inside one date, which the per-date mean    *)
(* and sum do not read.                                                    *)

Quotes == { <<20, 5>>, <<30, 7>> }     \* (implied_vol, volume) of a row

Row(d, q) == [date |-> d, implied_vol |-> q[1], volume |-> q[2]]

\* df['date'].unique(), sorted
UniqueDates(surface) == SortedSeq({ surface[k].date : k \in DOMAIN surface })

\* grouped.get_group(date): the rows of one date, in table order
GetGroup(surface, date) == SelectSeq(surface, LAMBDA r : r.date = date)

\* day_data[:, 0].mean()
DailyIv(surface, date) ==
    LET g == GetGroup(surface, date)
    IN Frac(SumSeq([k \in DOMAIN g |-> g[k].implied_vol]), Len(g))

\* day_data[:, 1].sum()
DailyVolume(surface, date) ==
    LET g == GetGroup(surface, date)
    IN Frac(SumSeq([k \in DOMAIN g |-> g[k].volume]), 1)

\* variant: one iteration more, range(len(dates) - sequence_length)
WindowCountOffByOne(D, L) == Max(0, D - L)

\* the number of iterations of "for i in range(len(dates) - sequence_length - 1)"
WindowCount(D, L) == Max(0, D - L - 1)

\* sequence_data of the window starting at 0-based index i
SequenceData(surface, dates, i, L) ==
    Flatten([j \in 1 .. L |->
                <<DailyIv(surface, dates[i + j]), DailyVolume(surface, dates[i + j])>>])

\* target_iv of the window starting at 0-based index i
TargetIv(surface, dates, i, L) == DailyIv(surface, dates[i + L + 1])

\* variant: a guard on the number of dates before the loop
prepare_data_raising(surface, L) ==
    LET dates == UniqueDates(surface)
    IN IF Len(dates) < L + 1
       THEN [status |-> "error", X |-> <<>>, y |-> <<>>]
       ELSE [status |-> "ok",
             X |-> [i \in 1 .. Max(0, Len(dates) - L - 1) |->
                       SequenceData(surface, dates, i - 1, L)],
             y |-> [i \in 1 .. Max(0, Len(dates) - L - 1) |->
                       TargetIv(surface, dates, i - 1, L)]]

prepare_data(surface, L) ==
    LET dates == UniqueDates(surface)
        n == WindowCount(Len(dates), L)
    IN [status |-> "ok",
        X |-> [i \in 1 .. n |-> SequenceData(surface, dates, i - 1, L)],
        y |-> [i \in 1 .. n |-> TargetIv(surface, dates, i - 1, L)]]

NotCalled == [status |-> "notcalled", X |-> <<>>, y |-> <<>>]

\* predict, line 225: recent_sequence = X[-1:], the last row as a 1-row array
recent_sequence(X) == IF X = <<>> THEN <<>> ELSE << X[Len(X)] >>

RECURSIVE SeqsUpTo(_, _)
SeqsUpTo(S, n) ==
    IF n = 0 THEN { <<>> }
    ELSE LET shorter == SeqsUpTo(S, n - 1)
         IN shorter \cup { Append(s, x) : s \in { t \in shorter : Len(t) = n - 1 }, x \in S }

RowSet == { Row(d, q) : d \in 1 .. MaxRows, q \in Quotes }

SurfaceSet == SeqsUpTo(RowSet, MaxRows)

----------------------------------------------------------------------------
(* Feature construction: SignalClassifier.predict, lines 149-158           *)
(* A dict is the sequence of its (key, value) items in insertion order,    *)
(* with distinct keys.  A value is a number or a string; a string is a     *)
(* sequence of characters.                                                 *)

\* train, lines 98-99
train_feature_cols == <<"edge_percent", "delta", "gamma", "vega", "theta",
                        "volume", "open_interest", "days_to_expiry">>

\* predict, lines 153-154
feature_cols == <<"edge_percent", "delta", "gamma", "vega", "theta",
                  "volume", "open_interest", "days_to_expiry">>

Num(n) == [type |-> "num", num |-> n, text |-> <<>>]
Str(t) == [type |-> "str", num |-> 0, text |-> t]

Chars == {"1", "7", "x"}

DigitValue(c) == IF c = "1" THEN 1 ELSE 7

\* float(text): the decimal value of a non-empty string of digits, else ValueError
RECURSIVE ParseDigits(_, _)
ParseDigits(t, acc) ==
    IF t = <<>> THEN [ok |-> TRUE, val |-> acc]
    ELSE IF Head(t) \notin {"1", "7"} THEN [ok |-> FALSE, val |-> 0]
    ELSE ParseDigits(Tail(t), 10 * acc + DigitValue(Head(t)))

ParseFloat(t) == IF t = <<>> THEN [ok |-> FALSE, val |-> 0] ELSE ParseDigits(t, 0)

\* k in d
HasKey(d, k) == \E j \in DOMAIN d : d[j][1] = k

\* d[k]
GetItem(d, k) == d[CHOOSE j \in DOMAIN d : d[j][1] = k][2]

NotBuilt == [status |-> "notcalled", row |-> <<>>, X |-> <<>>]

\* variant: the values taken in the order of the record
SelectByPosition(d) ==
    IF Len(d) < Len(feature_cols)
    THEN [status |-> "KeyError", row |-> <<>>]
    ELSE [status |-> "ok", row |-> [i \in DOMAIN feature_cols |-> d[i][2]]]

\* pd.DataFrame([signal_features])[feature_cols]: one row, the columns looked
\* up by label; a label that is no column is a KeyError
SelectColumns(d) ==
    IF \E i \in DOMAIN feature_cols : ~HasKey(d, feature_cols[i])
    THEN [status |-> "KeyError", row |-> <<>>]
    ELSE [status |-> "ok", row |-> [i \in DOMAIN feature_cols |-> GetItem(d, feature_cols[i])]]

\* the conversion of one cell of an object column to float64
AsFloat(v) == IF v.type = "num" THEN [ok |-> TRUE, val |-> v.num] ELSE ParseFloat(v.text)

\* self.scaler.transform(df), input validation: np.asarray(df, dtype=float64);
\* a cell that does not convert is a ValueError
CheckArray(row) ==
    IF \E i \in DOMAIN row : ~AsFloat(row[i]).ok
    THEN [status |-> "ValueError", X |-> <<>>]
    ELSE [status |-> "ok", X |-> [i \in DOMAIN row |-> AsFloat(row[i]).val]]

\* lines 155 and 158, up to the array the transform and the model work on
BuildFeatures(d) ==
    LET sel == SelectColumns(d)
    IN IF sel.status # "ok"
       THEN [status |-> sel.status, row |-> <<>>, X |-> <<>>]
       ELSE LET arr == CheckArray(sel.row)
            IN [status |-> arr.status, row |-> sel.row, X |-> arr.X]

(* The input records of the harness *)

IndexOf(k) == CHOOSE i \in DOMAIN feature_cols : feature_cols[i] = k

Rotate(s, r) == [i \in DOMAIN s |-> s[((i - 1 + r) % Len(s)) + 1]]

Reverse(s) == [i \in DOMAIN s |-> s[Len(s) + 1 - i]]

\* key orders: the training order and its reverse, rotated; with a key that is
\* no feature in front; with one feature key left out
KeyOrders ==
    LET full == { Rotate(o, r) : o \in {feature_cols, Reverse(feature_cols)},
                                 r \in 0 .. (Len(feature_cols) - 1) }
    IN full
       \cup { <<"symbol">> \o o : o \in full }
       \cup { SelectSeq(o, LAMBDA k : k # feature_cols[i]) :
                 o \in full, i \in DOMAIN feature_cols }

AllKeys == { feature_cols[i] : i \in DOMAIN feature_cols } \cup {"symbol"}

\* the values of a well-formed record: each key its own number
BaseValues == [k \in AllKeys |-> IF k = "symbol" THEN Num(99) ELSE Num(IndexOf(k))]

\* values to put in place of one of them
OddValues == { Num(0) } \cup { Str(t) : t \in SeqsUpTo(Chars, MaxText) }

ValueMaps == { BaseValues }
             \cup { [BaseValues EXCEPT ![k] = v] : k \in AllKeys \ {"symbol"}, v \in OddValues }

MkDict(order, vm) == [i \in DOMAIN order |-> <<order[i], vm[order[i]]>>]

FeatureInputSet == { MkDict(o, vm) : o \in KeyOrders, vm \in ValueMaps }

----------------------------------------------------------------------------
(* Artifact paths: a path is a sequence of characters *)

PKL == <<".", "p", "k", "l">>
H5 == <<".", "h", "5">>
SCALER_PKL == <<"_", "s", "c", "a", "l", "e", "r", ".", "p", "k", "l">>

\* s.startswith(old)
StartsWith(s, old) == Len(s) >= Len(old) /\ SubSeq(s, 1, Len(old)) = old

\* s.replace(old, new): every occurrence of old, found from the left and not
\* overlapping, is replaced by new
RECURSIVE Replace(_, _, _)
Replace(s, old, new) ==
    IF s = <<>> THEN <<>>
    ELSE IF StartsWith(s, old)
         THEN new \o Replace(SubSeq(s, Len(old) + 1, Len(s)), old, new)
         ELSE << Head(s) >> \o Replace(Tail(s), old, new)

\* model_path.replace('.pkl', '_scaler.pkl') / model_path.replace('.h5', '_scaler.pkl')
ScalerPath(k, path) == Replace(path, IF k = "clf" THEN PKL ELSE H5, SCALER_PKL)

NoPaths == [status |-> "notcalled", model |-> <<>>, scaler |-> <<>>]

\* the characters of the paths given to the constructors
PathChars(k) == IF k = "clf" THEN {"m", ".", "p", "k", "l"} ELSE {"m", ".", "h", "5"}

PathSet(k) == SeqsUpTo(PathChars(k), MaxPath) \ { <<>> }

----------------------------------------------------------------------------
(* Storage and in-memory objects *)

Kinds == {"clf", "vol"}

\* an artifact file: absent, being written (truncated) or complete; gen is the
\* training run that wrote it
Absent == [tag |-> "absent", gen |-> 0]
Partial(g) == [tag |-> "partial", gen |-> g]
Full(g) == [tag |-> "full", gen |-> g]

\* self.model / self.scaler: None, a fresh estimator, or one fitted by run g
NoneObj == [tag |-> "none", gen |-> 0]
Unfitted == [tag |-> "unfitted", gen |-> 0]
Fitted(g) == [tag |-> "fitted", gen |-> g]

\* os.path.exists
Exists(f) == f.tag # "absent"

NoInput == [src |-> "none", x |-> 0]
NoTrainData == [src |-> "none", days |-> 0]
NoResult == [kind |-> "none"]

\* no persisted pair is on storage: none was written yet, or a later train()
\* has begun to overwrite the files
NoSaved == [model |-> NoneObj, scaler |-> NoneObj]

FreshHist == [ctor |-> "pending",     \* "loaded" / "notloaded" once __init__ is over
              trained |-> "no",       \* "started" / "done" / "failed": the last train()
              preFiles |-> [model |-> Absent, scaler |-> Absent],
                                      \* the pair on storage when train() was entered
              errors |-> {},          \* the exceptions and argument errors of a CLI run
              diag |-> FALSE,         \* a CLI run wrote a traceback or an error message
              scored |-> FALSE]       \* predict() returned a result to a CLI main

----------------------------------------------------------------------------
(* Output lines *)

Line(t) == [tag |-> t, val |-> 0]

\* stdout after print(...) of `lines`.  The stream is recorded for the CLI
\* mains, whose output is the protocol with the caller; a library caller's
\* script owns its stdout and the model does not record it.
Printed(lines) == IF mode = "api" THEN stdout ELSE stdout \o lines

\* f"{x:.3f}" of a probability given in 1/10000: thousandths, to nearest
\* (the probabilities of ProbTable are never half-way)
Fmt3(p) == (p + 5) \div 10

\* json.dumps(result): the items in insertion order
JsonDumps(r) == << <<"current_avg_iv", r.current_avg_iv>>,
                   <<"predicted_avg_iv", r.predicted_avg_iv>>,
                   <<"change_percent", r.change_percent>>,
                   <<"direction", r.direction>> >>

ClfUsage == << Line("Usage:"), Line("  Train model: ..."), Line("  Classify signal: ...") >>

VolUsage == << Line("Usage:"), Line("  Train model: ..."), Line("  Make prediction: ...") >>

\* signal_classifier.py main, --predict mode: the confidence only
ClfPredictOutput(r) == << [tag |-> "confidence", val |-> Fmt3(r.confidence)] >>

\* variant: the summary printed after the confidence
ClfInlineOutputSummaryLast(r) ==
    << [tag |-> "confidence", val |-> Fmt3(r.confidence)],
       [tag |-> "ML Confidence:", val |-> Fmt3(r.confidence)],
       [tag |-> "Recommendation:", val |-> r.recommendation] >>

\* signal_classifier.py main, inline mode: summary, then the confidence
ClfInlineOutput(r) ==
    << [tag |-> "ML Confidence:", val |-> Fmt3(r.confidence)],
       [tag |-> "Recommendation:", val |-> r.recommendation],
       [tag |-> "confidence", val |-> Fmt3(r.confidence)] >>

\* volatility_predictor.py main, --predict: summary, then twice "\n" + JSON
VolPredictOutput(r) ==
    << Line("[INFO] Volatility Prediction Results:"),
       [tag |-> "Current IV:", val |-> r.current_avg_iv],
       [tag |-> "Predicted IV:", val |-> r.predicted_avg_iv],
       [tag |-> "Change:", val |-> r.change_percent],
       [tag |-> "Direction:", val |-> r.direction],
       Line(""), [tag |-> "json", val |-> JsonDumps(r)],
       Line(""), [tag |-> "json", val |-> JsonDumps(r)] >>

----------------------------------------------------------------------------
(* Scoring *)

\* the class-1 probabilities the fitted forest can return, in 1/10000
ProbTable == <<0, 3333, 6999, 7000, 7001, 10000>>

\* self.model.predict_proba(self.scaler.transform(df))[0][1]: a fixed function of
\* the fitted model, the fitted transform and the feature values
PredictProba(m, s, x) == ProbTable[((m.gen + 2 * s.gen + x) % Len(ProbTable)) + 1]

\* variant: the boundary included, prob_profitable >= 0.7
RecommendationAtLeast(p) == IF p >= TRADE_THRESHOLD THEN "TRADE" ELSE "AVOID"

\* 'TRADE' if prob_profitable > 0.7 else 'AVOID'
Recommendation(p) == IF p > TRADE_THRESHOLD THEN "TRADE" ELSE "AVOID"

\* the dict returned by SignalClassifier.predict; model.predict is the class of
\* the larger probability, class 0 on a tie
ClfResult(p) == [kind |-> "clf",
                 is_profitable |-> (p > 5000),
                 confidence |-> p,
                 recommendation |-> Recommendation(p)]

\* a surface with one row per date for D dates
MkSurface(D) == [d \in 1 .. D |-> Row(d, IF d % 2 = 0 THEN <<20, 5>> ELSE <<30, 7>>)]

\* df['implied_vol'].mean() over the whole table
CurrentIv(surface) ==
    Frac(SumSeq([k \in DOMAIN surface |-> surface[k].implied_vol]), Len(surface))

\* self.model.predict(X_scaled)[0][0]: a fixed function of the model, the
\* transform and the window
PredictIv(m, s, window) ==
    15 + 5 * ((m.gen + s.gen + window[Len(window) - 1].num) % 4)

\* the dict returned by VolatilityPredictor.predict
VolResult(predicted, current) ==
    [kind |-> "vol",
     current_avg_iv |-> current,
     predicted_avg_iv |-> predicted,
     change_percent |-> Frac((predicted * current.den - current.num) * 100, current.num),
     direction |-> IF predicted * current.den > current.num THEN "UP" ELSE "DOWN"]

----------------------------------------------------------------------------
(* Command lines *)

Tokens == {"--train", "--predict", "data"}

\* sys.argv: the program name and up to two arguments
ArgvSet == { <<"prog">> \o a : a \in SeqsUpTo(Tokens, 2) }

\* the branch signal_classifier.py main takes
ClfMode(argv) ==
    IF Len(argv) = 1 THEN "usage"
    ELSE IF Len(argv) = 2 /\ argv[2] = "--train" THEN "train"
    ELSE IF Len(argv) = 3 /\ argv[2] = "--predict" THEN "predict"
    ELSE IF Len(argv) = 2 THEN "inline"
    ELSE "invalid"

\* what the argument scored by signal_classifier.py can hold
ClfInputs(argv) ==
    CASE ClfMode(argv) = "predict" ->
           IF argv[3] = "data"
           THEN { [src |-> s, x |-> 0] : s \in {"nofile", "badjson", "missing"} }
                \cup { [src |-> "ok", x |-> x] : x \in 0 .. 2 }
           ELSE { [src |-> "nofile", x |-> 0] }
      [] ClfMode(argv) = "inline" ->
           IF argv[2] = "data"
           THEN { [src |-> s, x |-> 0] : s \in {"badjson", "missing"} }
                \cup { [src |-> "ok", x |-> x] : x \in 0 .. 2 }
           ELSE { [src |-> "badjson", x |-> 0] }
      [] OTHER -> { NoInput }

\* argparse over --train (store_true) and --predict PATH
RECURSIVE VolParse(_, _)
VolParse(args, acc) ==
    IF args = <<>> THEN acc
    ELSE IF Head(args) = "--train" THEN VolParse(Tail(args), [acc EXCEPT !.train = TRUE])
    ELSE IF Head(args) = "--predict"
         THEN IF Len(args) >= 2 /\ args[2] = "data"
              THEN VolParse(Tail(Tail(args)), [acc EXCEPT !.predict = TRUE])
              ELSE [acc EXCEPT !.err = TRUE]      \* expected one argument
    ELSE [acc EXCEPT !.err = TRUE]                \* unrecognized arguments

VolArgs(argv) == VolParse(Tail(argv), [err |-> FALSE, train |-> FALSE, predict |-> FALSE])

\* the branch volatility_predictor.py main takes
VolMode(argv) ==
    LET a == VolArgs(argv)
    IN IF a.err THEN "invalid"
       ELSE IF a.train THEN "train"
       ELSE IF a.predict THEN "predict"
       ELSE "usage"

\* the numbers of distinct dates of the surfaces given to --predict
PredictDays == {5, SEQUENCE_LENGTH + 1, SEQUENCE_LENGTH + 2, SEQUENCE_LENGTH + 3}

VolInputs(argv) ==
    IF VolMode(argv) = "predict"
    THEN { [src |-> "nofile", x |-> 0] } \cup { [src |-> "csv", x |-> d] : d \in PredictDays }
    ELSE { NoInput }

----------------------------------------------------------------------------
(* Training data *)

\* the numbers of distinct dates of the CSV files given to train(csv_path)
TrainDays == {5, SEQUENCE_LENGTH + 2}

\* the data of one train() call: generated, or supplied by the caller
SyntheticData(k) == { [src |-> "synthetic", days |-> IF k = "vol" THEN SYNTH_DAYS ELSE 0] }

SuppliedData(k) ==
    IF k = "clf" THEN { [src |-> "df", days |-> 0] }
    ELSE { [src |-> "csv", days |-> d] : d \in TrainDays }

\* whether the statement `f` of train() fails is the environment's choice:
\*   "columns"   df lacks a feature column (classifier, line 100)
\*   "scale"     the transform cannot be fitted to df (classifier, line 110)
\*   "fit"       the model cannot be fitted to the supplied data
\*   "eval"      classification_report rejects the test labels (line 130)
\*   "io"        a file cannot be written completely
\* generated data has the columns, the values and the classes the code expects
Fails(f) ==
    IF f = "io" \/ trainData.src = "df" \/ (trainData.src = "csv" /\ f = "fit")
    THEN BOOLEAN ELSE {FALSE}

\* the inputs a library caller hands to predict()
ApiInputs(k) ==
    IF k = "clf"
    THEN { [src |-> s, x |-> 0] : s \in {"badjson", "missing"} } \cup { [src |-> "ok", x |-> 1] }
    ELSE { [src |-> "nofile", x |-> 0] }
         \cup { [src |-> "csv", x |-> d] : d \in {5, SEQUENCE_LENGTH + 2} }

----------------------------------------------------------------------------
(* Initial state *)

ProcInit ==
    /\ files = [model |-> Absent, scaler |-> Absent]
    /\ synthCsv = FALSE
    /\ pc = "idle"
    /\ kind \in Kinds
    /\ mode = "usage"
    /\ model = NoneObj
    /\ scaler = NoneObj
    /\ is_trained = FALSE
    /\ ret = "none"
    /\ input = NoInput
    /\ trainData = NoTrainData
    /\ result = NoResult
    /\ raised = "none"
    /\ stdout = <<>>
    /\ exitStatus = -1
    /\ runs = 0
    /\ gen = 0
    /\ calls = 0
    /\ startFiles = files
    /\ hist = FreshHist
    /\ saved = NoSaved
    /\ lPc = "idle"
    /\ lModel = NoneObj
    /\ lScaler = NoneObj
    /\ lTrained = FALSE

Init ==
    /\ ProcInit
    /\ wSurface = <<>>
    /\ wL = SEQUENCE_LENGTH
    /\ wOut = NotCalled
    /\ fIn = <<>>
    /\ fOut = NotBuilt
    /\ pPath = <<>>
    /\ pOut = NoPaths

----------------------------------------------------------------------------
(* Process start: the interpreter starts a script *)

Stopped == pc \in {"idle", "exited", "killed"}

\* the fields of a new process that do not depend on the command line
NewProcess ==
    /\ model' = NoneObj
    /\ scaler' = NoneObj
    /\ is_trained' = FALSE
    /\ ret' = "none"
    /\ trainData' = NoTrainData
    /\ result' = NoResult
    /\ raised' = "none"
    /\ runs' = runs + 1
    /\ gen' = 0
    /\ calls' = 0
    /\ startFiles' = files
    /\ UNCHANGED <<files, synthCsv, kind, saved, winVars>>

ArgsError == [FreshHist EXCEPT !.errors = {"ArgumentError"}, !.diag = TRUE]

\* python signal_classifier.py ...: main up to the construction of the classifier
StartClf ==
    /\ Stopped
    /\ runs < MaxRuns
    /\ kind = "clf"
    /\ \E argv \in ArgvSet : \E inp \in ClfInputs(argv) :
         LET m == ClfMode(argv)
         IN /\ mode' = m
            /\ input' = inp
            /\ pc' = IF m \in {"usage", "invalid"} THEN "exited" ELSE "ctor"
            /\ stdout' = CASE m = "usage" -> ClfUsage
                           [] m = "invalid" -> << Line("Invalid arguments. ...") >>
                           [] OTHER -> <<>>
            /\ exitStatus' = CASE m = "usage" -> 0
                               [] m = "invalid" -> 1
                               [] OTHER -> -1
            /\ hist' = IF m = "invalid" THEN ArgsError ELSE FreshHist
    /\ NewProcess

\* python volatility_predictor.py ...: parse_args; an argparse error exits 2
\* with its message on stderr
StartVol ==
    /\ Stopped
    /\ runs < MaxRuns
    /\ kind = "vol"
    /\ \E argv \in ArgvSet : \E inp \in VolInputs(argv) :
         LET m == VolMode(argv)
         IN /\ mode' = m
            /\ input' = inp
            /\ pc' = IF m = "invalid" THEN "exited" ELSE "ctor"
            /\ exitStatus' = IF m = "invalid" THEN 2 ELSE -1
            /\ hist' = IF m = "invalid" THEN ArgsError ELSE FreshHist
    /\ stdout' = <<>>
    /\ NewProcess

\* a script that imports the module and drives the service itself (test_ml.py)
StartApi ==
    /\ Stopped
    /\ runs < MaxRuns
    /\ mode' = "api"
    /\ input' = NoInput
    /\ pc' = "ctor"
    /\ stdout' = <<>>
    /\ exitStatus' = -1
    /\ hist' = FreshHist
    /\ NewProcess

----------------------------------------------------------------------------
(* The constructor: __init__ *)

\* lines 30-36: the fields, then os.path.exists(model_path)
Ctor ==
    /\ pc = "ctor"
    /\ model' = NoneObj
    /\ scaler' = IF kind = "clf" THEN NoneObj ELSE Unfitted
    /\ is_trained' = FALSE
    /\ IF Exists(files.model)
       THEN pc' = "load_model" /\ hist' = hist
       ELSE pc' = "main" /\ hist' = [hist EXCEPT !.ctor = "notloaded"]
    /\ UNCHANGED <<files, synthCsv, kind, mode, ret, input, trainData, result, raised,
                   stdout, exitStatus, runs, gen, calls, startFiles, saved, winVars>>

\* "except Exception as e": the load is given up, with a warning
LoadFailed ==
    /\ pc' = "main"
    /\ stdout' = Printed(<< Line("[WARN] Could not load model:") >>)
    /\ hist' = [hist EXCEPT !.ctor = "notloaded",
                            !.errors = IF mode = "api" THEN @ ELSE @ \cup {"LoadError"},
                            !.diag = @ \/ (mode # "api")]

LoadSucceeded ==
    /\ pc' = "main"
    /\ is_trained' = TRUE
    /\ stdout' = Printed(<< Line("[OK] Loaded trained model") >>)
    /\ hist' = [hist EXCEPT !.ctor = "loaded"]

\* line 38: self.model = load(model_path)
LoadModel ==
    /\ pc = "load_model"
    /\ LET f == files.model
       IN IF f.tag = "full"
          THEN /\ model' = Fitted(f.gen)
               /\ pc' = "load_scaler"
               /\ UNCHANGED <<stdout, hist>>
          ELSE /\ LoadFailed
               /\ UNCHANGED model
    /\ UNCHANGED <<files, synthCsv, kind, mode, scaler, is_trained, ret, input, trainData,
                   result, raised, exitStatus, runs, gen, calls, startFiles, saved, winVars>>

\* variant: the scaler file is never read
LoadScalerKeepsDefault ==
    /\ pc = "load_scaler"
    /\ UNCHANGED scaler
    /\ LoadSucceeded
    /\ UNCHANGED <<files, synthCsv, kind, mode, model, ret, input, trainData,
                   result, raised, exitStatus, runs, gen, calls, startFiles, saved, winVars>>

\* classifier, lines 39-43: the scaler file is loaded unconditionally
\* forecaster, lines 40-44: the scaler file is loaded only if it exists
LoadScaler ==
    /\ pc = "load_scaler"
    /\ LET f == files.scaler
       IN IF kind = "vol" /\ ~Exists(f)
          THEN UNCHANGED scaler /\ LoadSucceeded
          ELSE IF f.tag = "full"
               THEN scaler' = Fitted(f.gen) /\ LoadSucceeded
               ELSE LoadFailed /\ UNCHANGED <<scaler, is_trained>>
    /\ UNCHANGED <<files, synthCsv, kind, mode, model, ret, input, trainData,
                   result, raised, exitStatus, runs, gen, calls, startFiles, saved, winVars>>

----------------------------------------------------------------------------
(* Exceptions *)


\* an exception leaves the current call after `lines` were printed.  In a CLI
\* main it is uncaught (traceback on stderr, exit status 1) unless it is raised
\* in the try block of the classifier's inline mode (inTry: "Error: ..." on
\* stdout, sys.exit(1)); a library caller gets it as the outcome of the call.
Raise(exc, lines, inTry, h) ==
    /\ raised' = exc
    /\ stdout' = Printed(lines \o (IF inTry THEN << Line("Error:") >> ELSE <<>>))
    /\ IF mode = "api"
       THEN /\ pc' = "ready"
            /\ exitStatus' = exitStatus
            /\ hist' = h
       ELSE /\ pc' = "exited"
            /\ exitStatus' = 1
            /\ hist' = [h EXCEPT !.errors = @ \cup {exc}, !.diag = TRUE]

TrainFail(exc, lines) == Raise(exc, lines, FALSE, [hist EXCEPT !.trained = "failed"])

----------------------------------------------------------------------------
(* main, after the constructor *)

\* an id for a new training run: one that no file and no object carries
UsedGens == {files.model.gen, files.scaler.gen, model.gen, scaler.gen,
             lModel.gen, lScaler.gen}

FreshGen == CHOOSE g \in 1 .. (Cardinality(UsedGens) + 1) :
              /\ g \notin UsedGens
              /\ \A h \in 1 .. (g - 1) : h \in UsedGens

\* the call classifier.train() / predictor.train(...) is entered
BeginTrain(td, r) ==
    /\ pc' = "t_begin"
    /\ ret' = r
    /\ trainData' = td
    /\ gen' = FreshGen
    /\ hist' = [hist EXCEPT !.trained = "started", !.preFiles = files]

\* classifier lines 180-185, forecaster lines 255-256: --train
MainTrain ==
    /\ pc = "main"
    /\ mode = "train"
    /\ \E td \in SyntheticData(kind) \cup (IF kind = "vol" THEN SuppliedData(kind) ELSE {}) :
         BeginTrain(td, "exit")
    /\ stdout' = IF kind = "clf" THEN Append(stdout, Line("Training new model..."))
                 ELSE stdout
    /\ UNCHANGED <<files, synthCsv, kind, mode, model, scaler, is_trained, input, result,
                   raised, exitStatus, runs, calls, startFiles, saved, winVars>>

\* where main goes once an artifact is loaded
ScorePc == IF kind = "clf" /\ mode = "predict" THEN "read_input" ELSE "predict"

\* variant: train() called without looking at is_trained
MainScoreAlwaysTrains ==
    /\ pc = "main"
    /\ mode \in {"predict", "inline"}
    /\ \E td \in SyntheticData(kind) : BeginTrain(td, ScorePc)
    /\ stdout' = Append(stdout, Line("Model not trained. Training first..."))
    /\ UNCHANGED <<files, synthCsv, kind, mode, model, scaler, is_trained, input, result,
                   raised, exitStatus, runs, calls, startFiles, saved, winVars>>

\* classifier lines 187-192 and 203-213, forecaster lines 257-260:
\* "if not is_trained: print(...); train()"
MainScore ==
    /\ pc = "main"
    /\ mode \in {"predict", "inline"}
    /\ IF ~is_trained
       THEN /\ \E td \in SyntheticData(kind) : BeginTrain(td, ScorePc)
            /\ stdout' = Append(stdout, Line(IF mode = "inline" THEN "Training new model..."
                                             ELSE "Model not trained. Training first..."))
       ELSE /\ pc' = ScorePc
            /\ UNCHANGED <<ret, trainData, gen, hist, stdout>>
    /\ UNCHANGED <<files, synthCsv, kind, mode, model, scaler, is_trained, input, result,
                   raised, exitStatus, runs, calls, startFiles, saved, winVars>>

\* forecaster lines 274-277: neither --train nor --predict
MainUsage ==
    /\ pc = "main"
    /\ mode = "usage"
    /\ stdout' = stdout \o VolUsage
    /\ pc' = "exited"
    /\ exitStatus' = 0
    /\ UNCHANGED <<files, synthCsv, kind, mode, model, scaler, is_trained, ret, input,
                   trainData, result, raised, runs, gen, calls, startFiles, hist, saved, winVars>>

\* the importing script holds the constructed service
MainApi ==
    /\ pc = "main"
    /\ mode = "api"
    /\ pc' = "ready"
    /\ UNCHANGED <<files, synthCsv, kind, mode, model, scaler, is_trained, ret, input,
                   trainData, result, raised, stdout, exitStatus, runs, gen, calls,
                   startFiles, hist, saved, winVars>>

\* classifier lines 194-196: open(sys.argv[2]) and json.load
ReadInput ==
    /\ pc = "read_input"
    /\ IF input.src \in {"nofile", "badjson"}
       THEN Raise(IF input.src = "nofile" THEN "FileNotFoundError" ELSE "JSONDecodeError",
                  <<>>, FALSE, hist)
       ELSE pc' = "predict" /\ UNCHANGED <<raised, hist, exitStatus, stdout>>
    /\ UNCHANGED <<files, synthCsv, kind, mode, model, scaler, is_trained, ret, input,
                   trainData, result, runs, gen, calls, startFiles, saved, winVars>>

----------------------------------------------------------------------------
(* train() *)

TrainPcs == {"t_begin", "t_scale", "t_fit", "t_eval", "t_open_model", "t_write_model",
             "t_open_scaler", "t_write_scaler", "t_done"}

\* what prepare_data prints
PrepareLines(n) == << Line("Loading data from"), [tag |-> "Prepared sequences", val |-> n] >>

\* classifier lines 93-106: the data, the feature columns, the split
\* forecaster lines 166-176: the CSV (generated and written if absent), the windows
TrainBegin ==
    /\ pc = "t_begin"
    /\ IF kind = "clf"
       THEN LET lines == IF trainData.src = "synthetic"
                         THEN << Line("Generating synthetic training data...") >>
                         ELSE <<>>
            IN /\ \E fail \in Fails("columns") :
                    IF fail
                    THEN TrainFail("KeyError", lines)
                    ELSE /\ pc' = "t_scale"
                         /\ stdout' = Printed(lines)
                         /\ UNCHANGED <<raised, hist, exitStatus>>
               /\ UNCHANGED synthCsv
       ELSE /\ pc' = "t_scale"
            /\ synthCsv' = (synthCsv \/ trainData.src = "synthetic")
            /\ stdout' = Printed((IF trainData.src = "synthetic"
                                THEN << Line("Generating synthetic volatility data..."),
                                        Line("[OK] Generated synthetic data saved to") >>
                                ELSE <<>>)
                               \o PrepareLines(WindowCount(trainData.days, SEQUENCE_LENGTH)))
            /\ UNCHANGED <<raised, hist, exitStatus>>
    /\ UNCHANGED <<files, kind, mode, model, scaler, is_trained, ret, input, trainData,
                   result, runs, gen, calls, startFiles, saved, winVars>>

\* classifier lines 109-111: self.scaler = StandardScaler(), then fit_transform
\* forecaster lines 179-180: self.scaler.fit_transform(X), which resets the
\* scaler and then rejects an X without samples
TrainScale ==
    /\ pc = "t_scale"
    /\ \E fail \in IF kind = "clf" THEN Fails("scale")
                     ELSE {WindowCount(trainData.days, SEQUENCE_LENGTH) = 0} :
         IF fail
         THEN /\ scaler' = Unfitted
              /\ TrainFail("ValueError", <<>>)
         ELSE /\ scaler' = Fitted(gen)
              /\ pc' = "t_fit"
              /\ UNCHANGED <<raised, hist, exitStatus, stdout>>
    /\ UNCHANGED <<files, synthCsv, kind, mode, model, is_trained, ret, input, trainData,
                   result, runs, gen, calls, startFiles, saved, winVars>>

\* classifier lines 114-122, forecaster lines 183-193: a new model object, fitted
TrainFit ==
    /\ pc = "t_fit"
    /\ LET lines == IF kind = "clf" THEN << Line("Training signal classifier...") >>
                    ELSE << Line("Training LSTM volatility predictor..."), Line("Epoch ...") >>
       IN \E fail \in Fails("fit") :
            IF fail
            THEN /\ model' = Unfitted
                 /\ TrainFail("ValueError", lines)
            ELSE /\ model' = Fitted(gen)
                 /\ pc' = IF kind = "clf" THEN "t_eval" ELSE "t_open_model"
                 /\ stdout' = Printed(lines)
                 /\ UNCHANGED <<raised, hist, exitStatus>>
    /\ UNCHANGED <<files, synthCsv, kind, mode, scaler, is_trained, ret, input, trainData,
                   result, runs, gen, calls, startFiles, saved, winVars>>

\* classifier lines 125-131: accuracy and the classification report
TrainEval ==
    /\ pc = "t_eval"
    /\ LET lines == << Line("[OK] Model trained with accuracy:"), Line(""),
                       Line("Classification Report:") >>
       IN \E fail \in Fails("eval") :
            IF fail
            THEN TrainFail("ValueError", lines)
            ELSE /\ pc' = "t_open_model"
                 /\ stdout' = Printed(lines \o << Line("<report>") >>)
                 /\ UNCHANGED <<raised, hist, exitStatus>>
    /\ UNCHANGED <<files, synthCsv, kind, mode, model, scaler, is_trained, ret, input,
                   trainData, result, runs, gen, calls, startFiles, saved, winVars>>

\* a file of the pair is opened for writing, which truncates it; the write that
\* follows may stop half-way (OSError)
OpenFile(which, next) ==
    /\ files' = [files EXCEPT ![which] = Partial(gen)]
    /\ saved' = NoSaved
    /\ \E fail \in Fails("io") :
         IF fail
         THEN TrainFail("OSError", <<>>)
         ELSE pc' = next /\ UNCHANGED <<raised, hist, exitStatus, stdout>>
    /\ UNCHANGED <<synthCsv, kind, mode, model, scaler, is_trained, ret, input, trainData,
                   result, runs, gen, calls, startFiles, winVars>>

\* the write completes and the file is closed
CloseFile(which, obj, next) ==
    /\ files' = [files EXCEPT ![which] = Full(obj.gen)]
    /\ pc' = next
    /\ UNCHANGED <<synthCsv, kind, mode, model, scaler, is_trained, ret, input, trainData,
                   result, raised, stdout, exitStatus, runs, gen, calls, startFiles, hist,
                   saved, winVars>>

\* classifier lines 134-135: joblib.dump(self.model, self.model_path)
\* forecaster lines 196-197: self.model.save(self.model_path)
TrainOpenModel == pc = "t_open_model" /\ OpenFile("model", "t_write_model")

TrainWriteModel == pc = "t_write_model" /\ CloseFile("model", model, "t_open_scaler")

\* classifier line 136, forecaster line 200: joblib.dump(self.scaler, <scaler path>)
TrainOpenScaler == pc = "t_open_scaler" /\ OpenFile("scaler", "t_write_scaler")

\* variant: the scaler file is opened and never completed
TrainWriteScalerSkipped ==
    /\ pc = "t_write_scaler"
    /\ pc' = "t_done"
    /\ UNCHANGED <<files, synthCsv, kind, mode, model, scaler, is_trained, ret, input,
                   trainData, result, raised, stdout, exitStatus, runs, gen, calls,
                   startFiles, hist, saved, winVars>>

TrainWriteScaler == pc = "t_write_scaler" /\ CloseFile("scaler", scaler, "t_done")

\* classifier lines 138-141, forecaster lines 202-210: the flag, the last
\* prints, the return to the caller
TrainDone ==
    /\ pc = "t_done"
    /\ is_trained' = TRUE
    /\ stdout' = Printed(<< Line("[OK] Model saved to") >>
                       \o (IF kind = "vol"
                           THEN << Line("Final training loss:"),
                                   Line("Final validation loss:") >>
                           ELSE <<>>))
    /\ hist' = [hist EXCEPT !.trained = "done"]
    /\ pc' = IF ret = "exit" THEN "exited" ELSE ret
    /\ exitStatus' = IF ret = "exit" THEN 0 ELSE exitStatus
    /\ raised' = "none"
    /\ trainData' = NoTrainData
    /\ saved' = [model |-> model, scaler |-> scaler]
    /\ UNCHANGED <<files, synthCsv, kind, mode, model, scaler, ret, input,
                   result, runs, gen, calls, startFiles, winVars>>

----------------------------------------------------------------------------
(* predict() *)

Outcome(e, r, l) == [exc |-> e, res |-> r, lines |-> l]

\* SignalClassifier.predict, lines 145-170
ClfPredict ==
    IF ~is_trained THEN Outcome("NotTrained", NoResult, <<>>)
    ELSE IF input.src = "badjson" THEN Outcome("JSONDecodeError", NoResult, <<>>)
    ELSE IF input.src = "missing" THEN Outcome("KeyError", NoResult, <<>>)
    ELSE IF scaler.tag # "fitted" \/ model.tag # "fitted"
         THEN Outcome("NotFittedError", NoResult, <<>>)
    ELSE Outcome("none", ClfResult(PredictProba(model, scaler, input.x)), <<>>)

\* variant: no check of len(X); a zero-valued result for a surface without window
VolPredictZeroResult ==
    IF ~is_trained THEN Outcome("NotTrained", NoResult, <<>>)
    ELSE IF input.src = "nofile" THEN Outcome("FileNotFoundError", NoResult, <<>>)
    ELSE LET surface == MkSurface(input.x)
             X == prepare_data(surface, SEQUENCE_LENGTH).X
             lines == PrepareLines(Len(X))
         IN IF Len(X) = 0
            THEN Outcome("none", VolResult(0, CurrentIv(surface)), lines)
            ELSE IF scaler.tag # "fitted" THEN Outcome("NotFittedError", NoResult, lines)
            ELSE Outcome("none",
                         VolResult(PredictIv(model, scaler, X[Len(X)]), CurrentIv(surface)),
                         lines)

\* VolatilityPredictor.predict, lines 214-242; a compiled but unfitted network
\* still predicts
VolPredict ==
    IF ~is_trained THEN Outcome("NotTrained", NoResult, <<>>)
    ELSE IF input.src = "nofile" THEN Outcome("FileNotFoundError", NoResult, <<>>)
    ELSE LET surface == MkSurface(input.x)
             X == prepare_data(surface, SEQUENCE_LENGTH).X
             lines == PrepareLines(Len(X))
         IN IF Len(X) = 0 THEN Outcome("ValueError", NoResult, lines)
            ELSE IF scaler.tag # "fitted" THEN Outcome("NotFittedError", NoResult, lines)
            ELSE Outcome("none",
                         VolResult(PredictIv(model, scaler, X[Len(X)]), CurrentIv(surface)),
                         lines)

\* what main prints after a successful predict
ScoreOutput(r) ==
    IF kind = "vol" THEN VolPredictOutput(r)
    ELSE IF mode = "inline" THEN ClfInlineOutput(r)
    ELSE ClfPredictOutput(r)

\* the call returned or raised: back in the caller
AfterPredict(o) ==
    IF o.exc # "none"
    THEN /\ Raise(o.exc, o.lines, kind = "clf" /\ mode = "inline", hist)
         /\ UNCHANGED result
    ELSE /\ result' = o.res
         /\ raised' = "none"
         /\ IF mode = "api"
            THEN /\ pc' = "ready"
                 /\ stdout' = Printed(o.lines)
                 /\ UNCHANGED <<exitStatus, hist>>
            ELSE /\ pc' = "exited"
                 /\ exitStatus' = 0
                 /\ stdout' = stdout \o o.lines \o ScoreOutput(o.res)
                 /\ hist' = [hist EXCEPT !.scored = TRUE]

\* variant: predict() trains on synthetic data instead of raising
PredictTrainsImplicitly ==
    /\ pc = "predict"
    /\ IF ~is_trained
       THEN /\ \E td \in SyntheticData(kind) : BeginTrain(td, "predict")
            /\ UNCHANGED <<result, raised, stdout, exitStatus>>
       ELSE /\ AfterPredict(IF kind = "clf" THEN ClfPredict ELSE VolPredict)
            /\ UNCHANGED <<ret, trainData, gen>>
    /\ UNCHANGED <<files, synthCsv, kind, mode, model, scaler, is_trained, input,
                   runs, calls, startFiles, saved, winVars>>

\* variant: the transform is fitted again to the input of the call
PredictRefitsTransform ==
    /\ pc = "predict"
    /\ AfterPredict(IF kind = "clf" THEN ClfPredict ELSE VolPredict)
    /\ scaler' = IF is_trained THEN Fitted(FreshGen) ELSE scaler
    /\ UNCHANGED <<files, synthCsv, kind, mode, model, is_trained, ret, input,
                   trainData, runs, gen, calls, startFiles, saved, winVars>>

\* predict(), and the lines of main that follow it: classifier 198-201 and
\* 216-226, forecaster 262-273
Predict ==
    /\ pc = "predict"
    /\ AfterPredict(IF kind = "clf" THEN ClfPredict ELSE VolPredict)
    /\ UNCHANGED <<files, synthCsv, kind, mode, model, scaler, is_trained, ret, input,
                   trainData, runs, gen, calls, startFiles, saved, winVars>>

----------------------------------------------------------------------------
(* The library caller *)

\* classifier.train() / classifier.train(df) / predictor.train(csv_path)
ApiCallTrain ==
    /\ pc = "ready"
    /\ calls < MaxCalls
    /\ calls' = calls + 1
    /\ \E td \in SyntheticData(kind) \cup SuppliedData(kind) : BeginTrain(td, "ready")
    /\ raised' = "none"
    /\ UNCHANGED <<files, synthCsv, kind, mode, model, scaler, is_trained, input, result,
                   stdout, exitStatus, runs, startFiles, saved, winVars>>

\* classifier.predict(features) / predictor.predict(csv_path)
ApiCallPredict ==
    /\ pc = "ready"
    /\ calls < MaxCalls
    /\ calls' = calls + 1
    /\ \E inp \in ApiInputs(kind) : input' = inp
    /\ pc' = "predict"
    /\ raised' = "none"
    /\ UNCHANGED <<files, synthCsv, kind, mode, model, scaler, is_trained, ret, trainData,
                   result, stdout, exitStatus, runs, gen, startFiles, hist, saved, winVars>>

\* the script ends
ApiFinish ==
    /\ pc = "ready"
    /\ pc' = "exited"
    /\ exitStatus' = 0
    /\ UNCHANGED <<files, synthCsv, kind, mode, model, scaler, is_trained, ret, input,
                   trainData, result, raised, stdout, runs, gen, calls, startFiles, hist,
                   saved, winVars>>

----------------------------------------------------------------------------
(* External termination: the process is killed wherever it is; its memory  *)
(* is gone, what it wrote to storage and to stdout stays                   *)

Kill ==
    /\ ~Stopped
    /\ pc' = "killed"
    /\ exitStatus' = 137
    /\ model' = NoneObj
    /\ scaler' = NoneObj
    /\ is_trained' = FALSE
    /\ ret' = "none"
    /\ input' = NoInput
    /\ trainData' = NoTrainData
    /\ result' = NoResult
    /\ raised' = "none"
    /\ calls' = 0
    /\ UNCHANGED <<files, synthCsv, kind, mode, stdout, runs, gen, startFiles, hist,
                   saved, winVars>>

----------------------------------------------------------------------------
(* The specification of the processes *)

Next ==
    \/ StartClf \/ StartVol \/ StartApi
    \/ Ctor \/ LoadModel \/ LoadScaler
    \/ MainTrain \/ MainScore \/ MainUsage \/ MainApi
    \/ ReadInput
    \/ TrainBegin \/ TrainScale \/ TrainFit \/ TrainEval
    \/ TrainOpenModel \/ TrainWriteModel \/ TrainOpenScaler \/ TrainWriteScaler \/ TrainDone
    \/ Predict
    \/ ApiCallTrain \/ ApiCallPredict \/ ApiFinish
    \/ Kill

Spec == Init /\ [][Next]_vars

----------------------------------------------------------------------------
(* A second process on the same artifact files: it constructs the service  *)
(* (__init__) while the first process is inside train().  Each statement   *)
(* of __init__ that touches a file is a step of its own; the steps of the  *)
(* two processes interleave freely, the code takes no lock.  The behaviour  *)
(* starts when a first "--train" run on empty storage has completed: the   *)
(* processes that follow retrain or score over its artifact.               *)

\* what that first run printed
FirstTrainOutput(k) ==
    IF k = "clf"
    THEN << Line("Training new model..."),
            Line("Generating synthetic training data..."),
            Line("Training signal classifier..."),
            Line("[OK] Model trained with accuracy:"), Line(""),
            Line("Classification Report:"), Line("<report>"),
            Line("[OK] Model saved to") >>
    ELSE << Line("Generating synthetic volatility data..."),
            Line("[OK] Generated synthetic data saved to") >>
         \o PrepareLines(WindowCount(SYNTH_DAYS, SEQUENCE_LENGTH))
         \o << Line("Training LSTM volatility predictor..."), Line("Epoch ..."),
               Line("[OK] Model saved to"),
               Line("Final training loss:"), Line("Final validation loss:") >>

\* the state in which that first run has exited
InitRace ==
    /\ kind \in Kinds
    /\ files = [model |-> Full(1), scaler |-> Full(1)]
    /\ synthCsv = (kind = "vol")
    /\ pc = "exited"
    /\ mode = "train"
    /\ model = Fitted(1)
    /\ scaler = Fitted(1)
    /\ is_trained = TRUE
    /\ ret = "exit"
    /\ input = NoInput
    /\ trainData = NoTrainData
    /\ result = NoResult
    /\ raised = "none"
    /\ stdout = FirstTrainOutput(kind)
    /\ exitStatus = 0
    /\ runs = 1
    /\ gen = 1
    /\ calls = 0
    /\ startFiles = [model |-> Absent, scaler |-> Absent]
    /\ hist = [FreshHist EXCEPT !.ctor = "notloaded", !.trained = "done"]
    /\ saved = [model |-> Fitted(1), scaler |-> Fitted(1)]
    /\ lPc = "idle"
    /\ lModel = NoneObj
    /\ lScaler = NoneObj
    /\ lTrained = FALSE
    /\ wSurface = <<>>
    /\ wL = SEQUENCE_LENGTH
    /\ wOut = NotCalled
    /\ fIn = <<>>
    /\ fOut = NotBuilt
    /\ pPath = <<>>
    /\ pOut = NoPaths

\* what the second process leaves alone
procVars == <<files, synthCsv, pc, kind, mode, model, scaler, is_trained, ret, input,
              trainData, result, raised, stdout, exitStatus, runs, gen, calls,
              startFiles, hist, saved, wSurface, wL, wOut, fIn, fOut, pPath, pOut>>

\* lines 30-36: the fields, then os.path.exists(model_path)
LoaderCtor ==
    /\ lPc = "idle"
    /\ pc \in TrainPcs
    /\ lModel' = NoneObj
    /\ lScaler' = IF kind = "clf" THEN NoneObj ELSE Unfitted
    /\ lTrained' = FALSE
    /\ lPc' = IF Exists(files.model) THEN "load_model" ELSE "done"
    /\ UNCHANGED procVars

\* line 38: self.model = load(model_path); a truncated file fails the load
LoaderLoadModel ==
    /\ lPc = "load_model"
    /\ IF files.model.tag = "full"
       THEN lModel' = Fitted(files.model.gen) /\ lPc' = "load_scaler"
       ELSE lModel' = lModel /\ lPc' = "done"
    /\ UNCHANGED <<lScaler, lTrained>>
    /\ UNCHANGED procVars

\* variant: the transform is accepted only if the run that wrote the model wrote it
LoaderLoadScalerSameRun ==
    /\ lPc = "load_scaler"
    /\ lPc' = "done"
    /\ IF files.scaler.tag = "full" /\ files.scaler.gen = lModel.gen
       THEN lScaler' = Fitted(files.scaler.gen) /\ lTrained' = TRUE
       ELSE UNCHANGED <<lScaler, lTrained>>
    /\ UNCHANGED lModel
    /\ UNCHANGED procVars

\* classifier lines 39-40, forecaster lines 40-43: the scaler file, the flag
LoaderLoadScaler ==
    /\ lPc = "load_scaler"
    /\ lPc' = "done"
    /\ LET f == files.scaler
       IN IF kind = "vol" /\ ~Exists(f)
          THEN lScaler' = lScaler /\ lTrained' = TRUE
          ELSE IF f.tag = "full"
               THEN lScaler' = Fitted(f.gen) /\ lTrained' = TRUE
               ELSE UNCHANGED <<lScaler, lTrained>>
    /\ UNCHANGED lModel
    /\ UNCHANGED procVars

NextRace == Next \/ LoaderCtor \/ LoaderLoadModel \/ LoaderLoadScaler

SpecRace == InitRace /\ [][NextRace]_vars

----------------------------------------------------------------------------
(* The specification of the windower harness *)

InitWindow ==
    /\ ProcInit
    /\ kind = "vol"
    /\ wSurface \in SurfaceSet
    /\ wL \in 1 .. MaxL
    /\ wOut = NotCalled
    /\ fIn = <<>>
    /\ fOut = NotBuilt
    /\ pPath = <<>>
    /\ pOut = NoPaths

\* X, y = prepare_data(csv_path, sequence_length)
WindowCall ==
    /\ wOut.status = "notcalled"
    /\ wOut' = prepare_data(wSurface, wL)
    /\ UNCHANGED <<files, synthCsv, pc, kind, mode, model, scaler, is_trained, ret, input,
                   trainData, result, raised, stdout, exitStatus, runs, gen, calls,
                   startFiles, hist, saved, wSurface, wL, fIn, fOut, pPath, pOut,
                   loaderVars>>

NextWindow == WindowCall

SpecWindow == InitWindow /\ [][NextWindow]_vars

----------------------------------------------------------------------------
(* The specification of the feature construction harness *)

InitFeatures ==
    /\ ProcInit
    /\ kind = "clf"
    /\ wSurface = <<>>
    /\ wL = SEQUENCE_LENGTH
    /\ wOut = NotCalled
    /\ fIn \in FeatureInputSet
    /\ fOut = NotBuilt
    /\ pPath = <<>>
    /\ pOut = NoPaths

\* predict(signal_features) up to the scaled array
FeatureCall ==
    /\ fOut.status = "notcalled"
    /\ fOut' = BuildFeatures(fIn)
    /\ UNCHANGED <<files, synthCsv, pc, kind, mode, model, scaler, is_trained, ret, input,
                   trainData, result, raised, stdout, exitStatus, runs, gen, calls,
                   startFiles, hist, saved, wSurface, wL, wOut, fIn, pPath, pOut,
                   loaderVars>>

NextFeatures == FeatureCall

SpecFeatures == InitFeatures /\ [][NextFeatures]_vars

----------------------------------------------------------------------------
(* The specification of the artifact path harness *)

InitPaths ==
    /\ ProcInit
    /\ wSurface = <<>>
    /\ wL = SEQUENCE_LENGTH
    /\ wOut = NotCalled
    /\ fIn = <<>>
    /\ fOut = NotBuilt
    /\ pPath \in PathSet(kind)
    /\ pOut = NoPaths

\* the file train() writes the model to and __init__ reads it from, and the
\* file they use for the scaler
PathCall ==
    /\ pOut.status = "notcalled"
    /\ pOut' = [status |-> "ok", model |-> pPath, scaler |-> ScalerPath(kind, pPath)]
    /\ UNCHANGED <<files, synthCsv, pc, kind, mode, model, scaler, is_trained, ret, input,
                   trainData, result, raised, stdout, exitStatus, runs, gen, calls,
                   startFiles, hist, saved, wSurface, wL, wOut, fIn, fOut, pPath,
                   loaderVars>>

NextPaths == PathCall

SpecPaths == InitPaths /\ [][NextPaths]_vars

----------------------------------------------------------------------------
(* Properties *)

\* the artifact pair a training run with id g leaves when it completes
PairOf(g) == [model |-> Full(g), scaler |-> Full(g)]

\* C1: a training run that is terminated at any point leaves on storage either
\* the pair that was there when it began (possibly no file at all) or the
\* complete pair of this run, never a mix of the two.
C1_NoPartialArtifact ==
    (pc = "killed" /\ hist.trained \in {"started", "done"})
        => files \in {hist.preFiles, PairOf(gen)}

\* C2: when the constructor is over, is_trained holds only if both files were
\* there and were read into self.model and self.scaler; with exactly one of
\* the two files present is_trained is false.
C2_LoadNeedsBothFiles ==
    pc = "main" =>
        /\ is_trained =>
             /\ files.model.tag = "full" /\ model = Fitted(files.model.gen)
             /\ files.scaler.tag = "full" /\ scaler = Fitted(files.scaler.gen)
        /\ (Exists(files.model) # Exists(files.scaler)) => ~is_trained

\* C3: predict() on a service whose is_trained is false raises the not-trained
\* error and changes neither the model, the transform and the flag in memory
\* nor the artifact files; no training run is entered.
C3_PredictUntrainedFails ==
    [][(pc = "predict" /\ ~is_trained /\ pc' # "killed")
          => /\ raised' = "NotTrained"
             /\ pc' \notin TrainPcs
             /\ model' = model
             /\ scaler' = scaler
             /\ is_trained' = is_trained
             /\ files' = files
             /\ gen' = gen
             /\ hist'.trained = hist.trained]_vars

C3_Witness == pc = "ready" /\ raised = "NotTrained" /\ ~is_trained /\ calls > 0

\* C4: the recommendation of a classifier result is TRADE exactly when the
\* confidence is strictly above 0.7 (7000 in 1/10000); at 0.7 and below it is
\* AVOID.
C4_TradeIffAboveThreshold ==
    result.kind = "clf" =>
        /\ result.recommendation = "TRADE" <=> result.confidence > 7000
        /\ result.confidence <= 7000 => result.recommendation = "AVOID"

C4_Witness ==
    /\ result.kind = "clf"
    /\ result.confidence = 7000
    /\ result.recommendation = "AVOID"

\* C5: a CLI run that scored successfully ends with the canonical result as
\* its last printed line: the confidence with 3 decimals (classifier), the JSON
\* object of the result (forecaster), whatever was printed before.
C5_LastLineCanonical ==
    (pc = "exited" /\ hist.scored) =>
        /\ stdout # <<>>
        /\ LET last == stdout[Len(stdout)]
           IN IF kind = "clf"
              THEN last.tag = "confidence" /\ last.val = (result.confidence + 5) \div 10
              ELSE last.tag = "json" /\ last.val = JsonDumps(result)

C5_Witness ==
    /\ pc = "exited"
    /\ hist.scored
    /\ mode = "inline"
    /\ hist.trained = "done"
    /\ Len(stdout) > 3

\* C6: a CLI run in which an error occurred exits with a non-zero status after
\* writing a diagnostic message.
C6_ErrorsExitNonZero ==
    (pc = "exited" /\ mode # "api" /\ hist.errors # {})
        => (exitStatus # 0 /\ hist.diag)

\* C7: in the predict and inline modes training runs exactly when the
\* constructor loaded no artifact; after a successful load nothing is trained
\* and the files stay as they were; predict is entered with is_trained true.
C7_TrainIffNotLoaded ==
    mode \in {"predict", "inline"} =>
        /\ hist.trained # "no" => hist.ctor = "notloaded"
        /\ (hist.ctor = "notloaded" /\ pc \in TrainPcs \cup {"read_input", "predict", "exited"})
              => hist.trained # "no"
        /\ hist.ctor = "loaded" => (hist.trained = "no" /\ files = startFiles)
        /\ pc \in {"read_input", "predict"} => is_trained
        /\ hist.scored => (hist.ctor = "loaded" \/ hist.trained = "done")

C7_Witness ==
    /\ mode = "predict"
    /\ pc = "exited"
    /\ hist.ctor = "loaded"
    /\ hist.scored
    /\ files = startFiles

\* C8: when train() returns, the model file and the transform file both hold
\* what this training run fitted, which is also the pair in memory, and
\* is_trained is true; the flag goes from false to true inside train() only
\* with both files already written.
C8_TrainReplacesPair ==
    [][/\ (pc = "t_done" /\ pc' # "killed")
            => /\ files' = PairOf(gen)
               /\ model' = Fitted(gen)
               /\ scaler' = Fitted(gen)
               /\ is_trained'
       /\ (pc \in TrainPcs /\ ~is_trained /\ is_trained')
            => files = PairOf(gen)]_vars

C8_Witness ==
    /\ mode = "train"
    /\ pc = "exited"
    /\ hist.ctor = "loaded"
    /\ hist.trained = "done"
    /\ startFiles # files
    /\ files = PairOf(gen)

\* the number of distinct dates of the harness surface
DistinctDates == Cardinality({ wSurface[k].date : k \in DOMAIN wSurface })

\* C9: prepare_data returns max(0, D - L - 1) windows (and as many targets)
\* for a surface of D distinct dates and window length L.
C9_WindowCountLaw ==
    wOut.status # "notcalled" =>
        LET n == IF DistinctDates - wL - 1 > 0 THEN DistinctDates - wL - 1 ELSE 0
        IN Len(wOut.X) = n /\ Len(wOut.y) = n

C9_Witness == wOut.status = "ok" /\ DistinctDates = wL + 3 /\ Len(wOut.X) = 2

\* C10 as stated: prepare_data fails whenever the surface has fewer than L+1
\* distinct dates.
C10_FailsBelowLPlus1 ==
    (wOut.status # "notcalled" /\ DistinctDates < wL + 1) => wOut.status = "error"

\* C10 as amended: with fewer than L+1 distinct dates prepare_data does not
\* fail, it returns no window and no target.
C10_EmptyBelowLPlus1 ==
    (wOut.status # "notcalled" /\ DistinctDates < wL + 1)
        => (wOut.status = "ok" /\ wOut.X = <<>> /\ wOut.y = <<>>)

C10_Witness ==
    /\ wOut.status = "ok"
    /\ DistinctDates > 0
    /\ DistinctDates < wL + 1
    /\ wOut.X = <<>>

\* C11: forecaster predict() on a surface that yields no window raises
\* ValueError and returns no result; the check comes before the transform, so
\* the error is the same with an unfitted transform in memory.
C11_ZeroWindowsRaise ==
    [][(/\ pc = "predict"
        /\ kind = "vol"
        /\ is_trained
        /\ input.src = "csv"
        /\ input.x < SEQUENCE_LENGTH + 2
        /\ pc' # "killed")
          => /\ raised' = "ValueError"
             /\ result' = result
             /\ ~hist'.scored
             /\ mode # "api" => exitStatus' = 1]_vars

C11_Witness ==
    /\ kind = "vol"
    /\ pc \in {"ready", "exited"}
    /\ hist.trained = "no"
    /\ is_trained
    /\ scaler = Unfitted
    /\ input = [src |-> "csv", x |-> 5]
    /\ raised = "ValueError"
    /\ result = NoResult

\* the keys of the harness record
KeysOf(d) == { d[j][1] : j \in DOMAIN d }

\* C12: the row handed to the transform holds, at each position, the value the
\* input record binds to the feature name of that position in the training
\* order, whatever the order of the keys in the record: the same record with
\* its items rotated or reversed gives the same row.
C12_BindsByName ==
    /\ feature_cols = train_feature_cols
    /\ (fOut.status # "notcalled" /\ \A i \in DOMAIN train_feature_cols :
                                          train_feature_cols[i] \in KeysOf(fIn))
          => /\ Len(fOut.row) = Len(train_feature_cols)
             /\ \A i \in DOMAIN train_feature_cols :
                   \E j \in DOMAIN fIn : /\ fIn[j][1] = train_feature_cols[i]
                                         /\ fIn[j][2] = fOut.row[i]
             /\ \A r \in DOMAIN fIn :
                   /\ BuildFeatures(Rotate(fIn, r)) = fOut
                   /\ BuildFeatures(Reverse(fIn)) = fOut

C12_Witness ==
    /\ fOut.status = "ok"
    /\ fIn[1][1] = "symbol"
    /\ fIn[2][1] = "days_to_expiry"
    /\ fIn[9][1] = "edge_percent"
    /\ fOut.row[1] = fIn[9][2]
    /\ fOut.row[8] = fIn[2][2]

\* C13: the feature construction succeeds only on a record that has all 8
\* feature keys, each with a value of a numeric type.
C13_RejectsNonNumeric ==
    fOut.status = "ok" =>
        \A i \in DOMAIN feature_cols :
            \E j \in DOMAIN fIn : /\ fIn[j][1] = feature_cols[i]
                                  /\ fIn[j][2].type = "num"

\* what predict() returns for input inp with model m and transform s in memory
ResultWith(m, s, inp) ==
    IF kind = "clf" THEN ClfResult(PredictProba(m, s, inp.x))
    ELSE LET surface == MkSurface(inp.x)
             X == prepare_data(surface, SEQUENCE_LENGTH).X
         IN VolResult(PredictIv(m, s, X[Len(X)]), CurrentIv(surface))

C15_PredictChangesNothing ==
    [][(pc = "predict" /\ pc' # "killed")
          => /\ model' = model
             /\ scaler' = scaler
             /\ is_trained' = is_trained
             /\ files' = files
             /\ saved' = saved]_vars

C15_Witness ==
    /\ mode = "api"
    /\ pc = "ready"
    /\ calls = 2
    /\ hist.ctor = "loaded"
    /\ hist.trained = "no"
    /\ result # NoResult
    /\ raised \notin {"none", "NotTrained"}
    /\ is_trained
    /\ files = startFiles
    /\ model = Fitted(files.model.gen)
    /\ scaler = Fitted(files.scaler.gen)

\* the distinct dates of the harness surface, and the n-th of them in date
\* order (n counted from 0)
DateSet == { wSurface[k].date : k \in DOMAIN wSurface }

NthDate(n) == CHOOSE d \in DateSet : Cardinality({ e \in DateSet : e < d }) = n

\* C16: for every start index i from 0 to D - L - 1 (days i .. i+L-1 and the
\* target day i+L are among the D distinct dates) prepare_data returns a
\* window, the 2L-vector of (mean implied vol, total volume) of days
\* i .. i+L-1 in date order, with the mean implied vol of day i+L as target.
C16_WindowPerIndex ==
    wOut.status # "notcalled" =>
        \A i \in 0 .. (DistinctDates - wL - 1) :
            /\ (i + 1) \in DOMAIN wOut.X
            /\ (i + 1) \in DOMAIN wOut.y
            /\ Len(wOut.X[i + 1]) = 2 * wL
            /\ \A j \in 0 .. (wL - 1) :
                  /\ wOut.X[i + 1][2 * j + 1] = DailyIv(wSurface, NthDate(i + j))
                  /\ wOut.X[i + 1][2 * j + 2] = DailyVolume(wSurface, NthDate(i + j))
            /\ wOut.y[i + 1] = DailyIv(wSurface, NthDate(i + wL))

\* C17: nothing orders the reads of a constructor against the writes of a
\* train() running in another process: each read takes the file as it is at
\* that moment, and a complete transform file is accepted whichever run wrote
\* it, so the loaded model can be the one of the running train() and the
\* loaded transform the one of the run before.
C17_LoadUnguarded ==
    [][/\ (lPc = "load_model" /\ lPc' # lPc /\ files.model.tag = "full")
            => (lPc' = "load_scaler" /\ lModel' = Fitted(files.model.gen))
       /\ (lPc = "load_scaler" /\ lPc' # lPc /\ files.scaler.tag = "full")
            => (lTrained' /\ lScaler' = Fitted(files.scaler.gen) /\ lModel' = lModel)]_vars

C17_Witness ==
    /\ pc \in TrainPcs
    /\ lPc = "done"
    /\ lTrained
    /\ lModel = Fitted(gen)
    /\ lScaler.tag = "fitted"
    /\ lScaler = Fitted(hist.preFiles.scaler.gen)
    /\ lScaler.gen # gen

\* the object a successful constructor holds for a file of the pair
LoadedFrom(f) == IF f.tag = "full" THEN Fitted(f.gen) ELSE Unfitted

\* C18: a library caller's first train() call that fails on a service whose
\* constructor loaded an artifact leaves self.model and self.scaler as the
\* constructor left them.
C18_FailedTrainKeepsPair ==
    (/\ mode = "api"
     /\ pc = "ready"
     /\ calls = 1
     /\ hist.ctor = "loaded"
     /\ startFiles.model.tag = "full"
     /\ startFiles.scaler.tag = "full"
     /\ hist.trained = "failed")
        => /\ model = LoadedFrom(startFiles.model)
           /\ scaler = LoadedFrom(startFiles.scaler)

\* C19: the window predict() hands to the transform and the model is made of
\* the L most recent distinct dates of the surface, in date order: its last
\* day is the latest date.
C19_RecentWindowEndsAtLatest ==
    (wOut.status # "notcalled" /\ wOut.X # <<>>) =>
        LET w == recent_sequence(wOut.X)[1]
        IN /\ Len(w) = 2 * wL
           /\ \A j \in 0 .. (wL - 1) :
                 /\ w[2 * j + 1] = DailyIv(wSurface, NthDate(DistinctDates - wL + j))
                 /\ w[2 * j + 2] = DailyVolume(wSurface, NthDate(DistinctDates - wL + j))

\* C20: the path used for the scaler file differs from the path of the model
\* file, for every model_path.
C20_PathsDiffer ==
    pOut.status # "notcalled" => pOut.scaler # pOut.model

====
